---- MODULE Spec2Model ----
(***************************************************************************)
(* Navigation engine of experiments.py: the k-NN similarity graph          *)
(* (build_engine), the biased stochastic walk (do_step, run_steps), the    *)
(* entropy/snap detector, the semantic lookup (find_meaning) and the       *)
(* coverage harness's reset.                                               *)
(*                                                                         *)
(* Numbers.  Python floats are modelled in fixed point with four decimals: *)
(* the integer x stands for x / Scale.  math.sqrt, math.exp and math.log   *)
(* are computed in that fixed point (integer square root, Taylor series,   *)
(* range reduction + atanh series); divisions round down.  Four decimals   *)
(* are what the snap threshold 0.08 and a drop of 0.0801 need.             *)
(*                                                                         *)
(* Ids.  A fragment's id is its position in the input list (1..n).         *)
(* build_engine stores fragments in a dict keyed by id, so a list with a   *)
(* repeated id builds the same engine as the list of its distinct ids in   *)
(* first-occurrence order with the last occurrence's content: every engine *)
(* build_engine can return is built from a list with distinct ids.         *)
(* The id 0 stands for the empty string, Engine.current's default.         *)
(*                                                                         *)
(* Content.  A text is one of Contents; embed maps a text to its vector.   *)
(* content[:400] and content[:80] keep the (short) text whole.             *)
(***************************************************************************)
EXTENDS Integers, Sequences, FiniteSets, TLC

VARIABLES engine, call, ret

vars == <<engine, call, ret>>

(***************************************************************************)
(* Bounds of the model.                                                    *)
(***************************************************************************)
MaxNodes == 3

MaxK == 2

MaxStep == 5

MaxDeepStep == 24

MaxRun == 2

(***************************************************************************)
(* Fixed point.                                                            *)
(***************************************************************************)
Scale == 10000

Min(a, b) == IF a <= b THEN a ELSE b

Max(a, b) == IF a >= b THEN a ELSE b

RECURSIVE SumSeq(_)
SumSeq(s) == IF s = <<>> THEN 0 ELSE Head(s) + SumSeq(Tail(s))

Range(s) == {s[i] : i \in DOMAIN s}

\* The element of a one-element set.  { F(v) : v \in {x} } computes x once
\* and F on its value, where LET v == x IN F(v) may compute x at every use.
Only(S) == CHOOSE x \in S : TRUE

\* math.sqrt on a non-negative integer n, result in fixed point:
\* the largest m with m * m <= n * Scale * Scale, by bisection.
RECURSIVE SqrtBisect(_, _, _)
SqrtBisect(n, lo, hi) ==
    IF hi - lo <= 1 THEN lo
    ELSE LET mid == (lo + hi) \div 2
         IN  IF mid * mid <= n THEN SqrtBisect(n, mid, hi)
             ELSE SqrtBisect(n, lo, mid)

\* math.sqrt over the sums of squares the embeddings give (at most MaxNorm).
MaxNorm == 16

SqrtTable == [n \in 0..MaxNorm |-> SqrtBisect(n * Scale * Scale, 0, 4 * Scale + 1)]

Sqrt(n) == SqrtTable[n]

\* math.exp in fixed point: the Taylor series to ExpOrder terms.
ExpOrder == 10

RECURSIVE ExpTerms(_, _, _)
ExpTerms(x, term, n) ==
    IF n > ExpOrder THEN 0
    ELSE term + ExpTerms(x, (term * x) \div (n * Scale), n + 1)

\* The exponents a weight can take lie in -ExpRange..2 * ExpRange.
ExpRange == 10000

ExpTable == [x \in (-ExpRange)..(2 * ExpRange) |-> ExpTerms(x, Scale, 1)]

Exp(x) == ExpTable[x]

\* math.log(p + 1e-10) for a probability p in fixed point.  1e-10 is below
\* the resolution: it only matters at p = 0, where the result is ln(1e-10).
Ln2 == 6931

LnEps == -230259

AtanhOrder == 4

RECURSIVE AtanhTerms(_, _, _)
AtanhTerms(z2, pow, i) ==
    IF i > AtanhOrder THEN 0
    ELSE pow \div (2 * i - 1) + AtanhTerms(z2, (pow * z2) \div Scale, i + 1)

RECURSIVE LnReduce(_)
LnReduce(p) ==
    IF p <= 0 THEN LnEps
    ELSE IF 2 * p <= Scale THEN LnReduce(2 * p) - Ln2
    ELSE LET z == ((p - Scale) * Scale) \div (p + Scale)
         IN  2 * AtanhTerms((z * z) \div Scale, z, 1)

LnTable == [p \in 0..Scale |-> LnReduce(p)]

Ln(p) == LnTable[p]

(***************************************************************************)
(* Embeddings: embed(text) is a fixed vector per text.                     *)
(***************************************************************************)
Vectors == << <<1, 0>>, <<1, 1>>, <<0, 0>> >>

Contents == DOMAIN Vectors

embed(text) == Vectors[text]

embed_batch(texts) == [i \in DOMAIN texts |-> embed(texts[i])]

\* zip(a, b) stops at the shorter vector; the magnitudes use each whole vector.
cosine_sim(a, b) ==
    LET dot == SumSeq([i \in 1..Min(Len(a), Len(b)) |-> a[i] * b[i]])
        ma  == Sqrt(SumSeq([i \in DOMAIN a |-> a[i] * a[i]]))
        mb  == Sqrt(SumSeq([i \in DOMAIN b |-> b[i] * b[i]]))
    IN  IF ma > 0 /\ mb > 0
        THEN (dot * Scale * Scale) \div ((ma * mb) \div Scale)
        ELSE 0

(***************************************************************************)
(* dragon_turn: Python's & and << on unbounded two's-complement integers,  *)
(* computed on Width bits (step + 1 stays far below 2^(Width-1)).          *)
(***************************************************************************)
Width == 8

RECURSIVE Pow2(_)
Pow2(n) == IF n = 0 THEN 1 ELSE 2 * Pow2(n - 1)

RECURSIVE BitAnd(_, _, _)
BitAnd(a, b, bits) ==
    IF bits = 0 THEN 0
    ELSE (a % 2) * (b % 2) + 2 * BitAnd(a \div 2, b \div 2, bits - 1)

Neg(s) == (Pow2(Width) - s) % Pow2(Width)

ShiftLeft(a, n) == (a * Pow2(n)) % Pow2(Width)

\* A rule that tests the lowest set bit itself, not the bit above it.
DragonTurnNoShift(step) ==
    IF step <= 0 THEN 1
    ELSE IF BitAnd(BitAnd(step, Neg(step), Width), step, Width) = 0
         THEN 1 ELSE -1

dragon_turn(step) ==
    IF step <= 0 THEN 1
    ELSE IF BitAnd(ShiftLeft(BitAnd(step, Neg(step), Width), 1), step, Width) = 0
         THEN 1 ELSE -1

(***************************************************************************)
(* Lists.                                                                  *)
(***************************************************************************)
\* s[:k]: the first k entries for k >= 0, all but the last -k for k < 0.
Slice(s, k) ==
    IF k >= 0 THEN SubSeq(s, 1, Min(k, Len(s)))
    ELSE SubSeq(s, 1, Max(0, Len(s) + k))

\* list.sort(key=lambda x: -x[at]): a stable sort, largest key first; a
\* pair of equal keys keeps the order it had.
\* A sort that is not stable: an equal key goes in front.
RECURSIVE InsertDescUnstable(_, _, _)
InsertDescUnstable(s, x, at) ==
    IF s = <<>> THEN <<x>>
    ELSE IF Head(s)[at] > x[at] THEN <<Head(s)>> \o InsertDescUnstable(Tail(s), x, at)
    ELSE <<x>> \o s

RECURSIVE InsertDesc(_, _, _)
InsertDesc(s, x, at) ==
    IF s = <<>> THEN <<x>>
    ELSE IF Head(s)[at] >= x[at] THEN <<Head(s)>> \o InsertDesc(Tail(s), x, at)
    ELSE <<x>> \o s

RECURSIVE SortDesc(_, _)
SortDesc(s, at) ==
    IF s = <<>> THEN <<>>
    ELSE InsertDesc(SortDesc(SubSeq(s, 1, Len(s) - 1), at), s[Len(s)], at)

(***************************************************************************)
(* The engine.                                                             *)
(***************************************************************************)
Node(cid, content, emb) ==
    [id |-> cid, content |-> content, embedding |-> emb, visits |-> 0, hue |-> 0]

\* Engine(): the dataclass's defaults.
Engine ==
    [nodes |-> <<>>, edges |-> <<>>, current |-> 0, path |-> <<>>,
     turns |-> <<>>, snaps |-> <<>>, entropy_hist |-> <<>>, step |-> 0]

\* list(engine.nodes.keys()): the ids in insertion order.
Keys(nodes) == [i \in 1..Cardinality(DOMAIN nodes) |-> i]

\* A k-NN list that does not leave nid itself out.
NeighborsWithSelf(nodes, ids, nid, k) ==
    LET sims   == [i \in DOMAIN ids |->
                     <<ids[i], cosine_sim(nodes[nid].embedding, nodes[ids[i]].embedding)>>]
        top    == Slice(SortDesc(sims, 2), k)
    IN  [i \in DOMAIN top |-> top[i][1]]

\* The k-NN list of nid: the other ids by descending similarity.
Neighbors(nodes, ids, nid, k) ==
    LET others == SelectSeq(ids, LAMBDA oid : oid # nid)
        sims   == [i \in DOMAIN others |->
                     <<others[i],
                       cosine_sim(nodes[nid].embedding, nodes[others[i]].embedding)>>]
        sorted == SortDesc(sims, 2)
        top    == Slice(sorted, k)
    IN  [i \in DOMAIN top |-> top[i][1]]

\* chunks: a list of <<id, content>> with distinct ids.  With no chunk,
\* ids[0] raises IndexError and no engine is returned.
build_engine(chunks, k) ==
    LET contents   == [i \in DOMAIN chunks |-> chunks[i][2]]
        embeddings == embed_batch(contents)
        nodes      == [cid \in {chunks[i][1] : i \in DOMAIN chunks} |->
                         LET i == CHOOSE j \in DOMAIN chunks : chunks[j][1] = cid
                         IN  Node(cid, chunks[i][2], embeddings[i])]
        ids        == Keys(nodes)
        edges      == [nid \in DOMAIN nodes |-> Neighbors(nodes, ids, nid, k)]
    IN  IF ids = <<>>
        THEN [engine |-> Engine, err |-> "IndexError"]
        ELSE [engine |-> [Engine EXCEPT !.nodes = nodes, !.edges = edges,
                                        !.current = ids[1], !.path = <<ids[1]>>],
              err |-> "none"]

(***************************************************************************)
(* do_step.                                                                *)
(***************************************************************************)
SimWeight == 3

TurnWeight == 1000

HueBump == 1500

HueDecay == 95

SnapLag == 4

SnapThreshold == 800

\* The weight of neighbor n before the exponential.
Weight(e, n, turn) ==
    LET node      == e.nodes[n]
        novelty   == Scale \div (1 + node.visits)
        sim       == cosine_sim(e.nodes[e.current].embedding, node.embedding)
        hue_avoid == node.hue \div 2
    IN  novelty + (sim * SimWeight) \div 10 - hue_avoid + turn * TurnWeight

\* The sampling loop: the first neighbor whose cumulative probability
\* reaches r, and neighbors[0] when none does.
RECURSIVE Sample(_, _, _, _, _)
Sample(neighbors, probs, r, i, cumul) ==
    IF i > Len(probs) THEN neighbors[1]
    ELSE IF r <= cumul + probs[i] THEN neighbors[i]
    ELSE Sample(neighbors, probs, r, i + 1, cumul + probs[i])

Probs(e, neighbors, turn) ==
    LET weights == [i \in DOMAIN neighbors |-> Exp(Weight(e, neighbors[i], turn))]
        total   == SumSeq(weights)
    IN  [i \in DOMAIN weights |-> (weights[i] * Scale) \div total]

Entropy(probs) ==
    - SumSeq([i \in DOMAIN probs |-> (probs[i] * Ln(probs[i])) \div Scale])

\* A detector whose threshold is not strict.
SnapOfNotStrict(e, hist, next_node) ==
    IF Len(hist) > SnapLag
    THEN LET delta == hist[Len(hist) - SnapLag] - hist[Len(hist)]
         IN  IF delta >= SnapThreshold
             THEN << [step |-> e.step, delta |-> delta, node |-> next_node,
                      preview |-> e.nodes[next_node].content] >>
             ELSE <<>>
    ELSE <<>>

\* A detector that records the step counter as it is after the move.
SnapOfNextStep(e, hist, next_node) ==
    IF Len(hist) > SnapLag
    THEN LET delta == hist[Len(hist) - SnapLag] - hist[Len(hist)]
         IN  IF delta > SnapThreshold
             THEN << [step |-> e.step + 1, delta |-> delta, node |-> next_node,
                      preview |-> e.nodes[next_node].content] >>
             ELSE <<>>
    ELSE <<>>

\* The snap of this step, as a list: <<>> for None.  hist is entropy_hist
\* with this step's entropy appended.
SnapOf(e, hist, next_node) ==
    IF Len(hist) > SnapLag
    THEN LET delta == hist[Len(hist) - SnapLag] - hist[Len(hist)]
         IN  IF delta > SnapThreshold
             THEN << [step |-> e.step, delta |-> delta, node |-> next_node,
                      preview |-> e.nodes[next_node].content] >>
             ELSE <<>>
    ELSE <<>>

StepRet(node, entropy, snap) ==
    [err |-> "none", node |-> node, entropy |-> entropy, snap |-> snap]

\* An early return that still counts the step.
NoMoveCounted(e) ==
    [engine |-> [e EXCEPT !.step = @ + 1], ret |-> StepRet(e.current, 0, <<>>)]

\* The early return of a step that cannot move.
NoMove(e) == [engine |-> e, ret |-> StepRet(e.current, 0, <<>>)]

\* A visit that does not clamp the raised hue to 1.0.
VisitUnclamped(nodes, next_node) ==
    LET entered == [nodes EXCEPT
                      ![next_node].visits = @ + 1,
                      ![next_node].hue = nodes[next_node].hue + HueBump]
    IN  [n \in DOMAIN entered |->
           [entered[n] EXCEPT !.hue = (@ * HueDecay) \div 100]]

\* A visit that raises the hue and forgets the count.
VisitNotCounted(nodes, next_node) ==
    LET entered == [nodes EXCEPT
                      ![next_node].hue = Min(Scale, nodes[next_node].hue + HueBump)]
    IN  [n \in DOMAIN entered |->
           [entered[n] EXCEPT !.hue = (@ * HueDecay) \div 100]]

\* The visit: the entered node's count and hue go up, then every hue decays.
Visit(nodes, next_node) ==
    LET entered == [nodes EXCEPT
                      ![next_node].visits = @ + 1,
                      ![next_node].hue = Min(Scale, nodes[next_node].hue + HueBump)]
    IN  [n \in DOMAIN entered |->
           [entered[n] EXCEPT !.hue = (@ * HueDecay) \div 100]]

\* A move that forgets to record the turn.
AdvanceNoTurn(e, next_node, turn) ==
    [e EXCEPT !.current = next_node,
              !.path = Append(e.path, next_node),
              !.step = e.step + 1]

\* A move that puts the entered node in front of the path.
AdvancePrepends(e, next_node, turn) ==
    [e EXCEPT !.current = next_node,
              !.path = <<next_node>> \o e.path,
              !.turns = Append(e.turns, turn),
              !.step = e.step + 1]

\* A move that records the entered node and leaves the cursor behind.
AdvanceKeepsCursor(e, next_node, turn) ==
    [e EXCEPT !.path = Append(e.path, next_node),
              !.turns = Append(e.turns, turn),
              !.step = e.step + 1]

\* The move: the cursor, the path, the turns and the step counter.
Advance(e, next_node, turn) ==
    [e EXCEPT !.current = next_node,
              !.path = Append(e.path, next_node),
              !.turns = Append(e.turns, turn),
              !.step = e.step + 1]

\* One step with the random draw r (random.random(), in fixed point).
do_step(e, r) ==
    IF e.current = 0 \/ e.current \notin DOMAIN e.edges
    THEN NoMove(e)
    ELSE IF e.edges[e.current] = <<>>
    THEN NoMove(e)
    ELSE LET neighbors == e.edges[e.current]
             turn      == dragon_turn(e.step + 1)
             probs     == Probs(e, neighbors, turn)
             next_node == Sample(neighbors, probs, r, 1, 0)
             entropy   == Entropy(probs)
             hist      == Append(e.entropy_hist, entropy)
             snap      == SnapOf(e, hist, next_node)
             updated   == [e EXCEPT !.nodes = Visit(e.nodes, next_node),
                                    !.entropy_hist = hist,
                                    !.snaps = e.snaps \o snap]
         IN  [engine |-> Advance(updated, next_node, turn),
              ret |-> StepRet(next_node, entropy, snap)]

(***************************************************************************)
(* run_steps.                                                              *)
(***************************************************************************)
CovScale == 1000

\* round(visited / total, 3) in thousandths.  round() goes to the nearest
\* thousandth and at an exact tie to the even one (1/16 gives 0.062).  A tie
\* that is no binary fraction (1/2000) is rounded by the double nearest to
\* it instead: the inputs drawn for Coverage leave the ties out (NoTie).
Coverage(visited, total) ==
    LET num == visited * CovScale
        q   == num \div total
        rem == num % total
    IN  IF 2 * rem > total THEN q + 1
        ELSE IF 2 * rem = total THEN q + (q % 2)
        ELSE q

\* The loop over range(n), draws[i + 1] being the draw of iteration i.  The
\* progress line reads engine.turns[-1], which raises IndexError on an
\* empty turns.
RECURSIVE RunLoop(_, _, _, _)
RunLoop(e, draws, i, verbose) ==
    IF i >= Len(draws) THEN [engine |-> e, err |-> "none"]
    ELSE Only({ IF verbose /\ (i % 20 = 0 \/ s.ret.snap # <<>>) /\ s.engine.turns = <<>>
                THEN [engine |-> s.engine, err |-> "IndexError"]
                ELSE RunLoop(s.engine, draws, i + 1, verbose)
                : s \in {do_step(e, draws[i + 1])} })

\* A count that leaves the start node out.
VisitedAfterStart(e) == Cardinality(Range(Tail(e.path)))

\* len(set(engine.path)).
Visited(e) == Cardinality(Range(e.path))

RunRet(e) ==
    LET visited == Visited(e)
    IN  [err |-> "none",
         steps |-> e.step,
         snaps |-> Len(e.snaps),
         coverage |-> Coverage(visited, Cardinality(DOMAIN e.nodes)),
         unique_visited |-> visited]

run_steps(e, draws, verbose) ==
    Only({ IF out.err # "none"
           THEN [engine |-> out.engine, ret |-> [err |-> out.err]]
           ELSE [engine |-> out.engine, ret |-> RunRet(out.engine)]
           : out \in {RunLoop(e, draws, 0, verbose)} })

(***************************************************************************)
(* find_meaning.                                                           *)
(***************************************************************************)
\* The scores of all nodes, in the insertion order of engine.nodes.
Scores(e, q_emb) ==
    LET ids == Keys(e.nodes)
    IN  [i \in DOMAIN ids |->
           <<cosine_sim(q_emb, e.nodes[ids[i]].embedding),
             e.nodes[ids[i]].id, e.nodes[ids[i]].content>>]

\* A ranking that returns one entry too many.
RankOneMore(scores, k) == Slice(SortDesc(scores, 1), k + 1)

\* scores.sort(key=lambda x: -x[0]); scores[:k].
Rank(scores, k) == Slice(SortDesc(scores, 1), k)

find_meaning(e, query, k) ==
    [engine |-> e,
     ret |-> [err |-> "none", results |-> Rank(Scores(e, embed(query)), k)]]

(***************************************************************************)
(* The coverage command's reset of the navigation state.                   *)
(***************************************************************************)
\* A reset that leaves every hue as it was.
ResetKeepsHue(e) ==
    LET first == Keys(e.nodes)[1]
    IN  [e EXCEPT !.current = first,
                  !.path = <<first>>,
                  !.turns = <<>>,
                  !.entropy_hist = <<>>,
                  !.snaps = <<>>,
                  !.step = 0,
                  !.nodes = [n \in DOMAIN e.nodes |->
                               [e.nodes[n] EXCEPT !.visits = 0]]]

coverage_reset(e) ==
    LET first == Keys(e.nodes)[1]
    IN  [e EXCEPT !.current = first,
                  !.path = <<first>>,
                  !.turns = <<>>,
                  !.entropy_hist = <<>>,
                  !.snaps = <<>>,
                  !.step = 0,
                  !.nodes = [n \in DOMAIN e.nodes |->
                               [e.nodes[n] EXCEPT !.visits = 0, !.hue = 0]]]

(***************************************************************************)
(* The state machine.  engine is the Engine object; call is the operation  *)
(* last invoked with its arguments, ret what it returned (err names the    *)
(* exception it raised, "none" when it returned).                          *)
(***************************************************************************)
\* random.random() draws, in fixed point.
Draws == {0, 5000, 9999}

Chunks(texts) == [i \in DOMAIN texts |-> <<i, texts[i]>>]

Corpora == UNION {[1..n -> Contents] : n \in 0..MaxNodes}

Init ==
    \E texts \in Corpora, k \in 1..MaxK :
        \E b \in {build_engine(Chunks(texts), k)} :
            /\ engine = b.engine
            /\ call = [op |-> "build_engine", chunks |-> Chunks(texts), k |-> k]
            /\ ret = [err |-> b.err]

\* An operation runs on the engine of a process that has not raised.
Ready == ret.err = "none"

\* A graph whose nodes have at most one neighbor each has a single walk,
\* which is followed further than the branching walks of the others.
SingleWalk(e) == \A n \in DOMAIN e.edges : Len(e.edges[n]) <= 1

StepLimit(e) == IF SingleWalk(e) THEN MaxDeepStep ELSE MaxStep

DoStep ==
    /\ Ready
    /\ engine.step < StepLimit(engine)
    /\ \E r \in Draws :
        \E s \in {do_step(engine, r)} :
            /\ engine' = s.engine
            /\ call' = [op |-> "do_step"]
            /\ ret' = s.ret

RunSteps ==
    /\ Ready
    /\ \E n \in 0..MaxRun, verbose \in BOOLEAN :
        /\ engine.step + n <= StepLimit(engine)
        /\ \E draws \in [1..n -> Draws] :
            \E s \in {run_steps(engine, draws, verbose)} :
                /\ engine' = s.engine
                /\ call' = [op |-> "run_steps", n |-> n]
                /\ ret' = s.ret

FindMeaning ==
    /\ Ready
    /\ \E query \in Contents, k \in 0..(MaxNodes + 1) :
        \E s \in {find_meaning(engine, query, k)} :
            /\ engine' = s.engine
            /\ call' = [op |-> "find_meaning", query |-> query, k |-> k]
            /\ ret' = s.ret

CoverageReset ==
    /\ Ready
    /\ engine' = coverage_reset(engine)
    /\ call' = [op |-> "coverage_reset"]
    /\ ret' = [err |-> "none"]

Next == DoStep \/ RunSteps \/ CoverageReset

Spec == Init /\ [][Next]_vars

\* The walk step by step, without the runs.
NextWalk == DoStep \/ CoverageReset

SpecWalk == Init /\ [][NextWalk]_vars

(***************************************************************************)
(* The lookup: find_meaning on an engine as built and after a short walk.  *)
(***************************************************************************)
ShortStep == engine.step < MaxRun /\ DoStep

NextLookup == FindMeaning \/ ShortStep \/ CoverageReset

SpecLookup == Init /\ [][NextLookup]_vars

(***************************************************************************)
(* The snap threshold on a crafted history: the engine as built, with four *)
(* entries put into entropy_hist by hand, the first one a chosen drop      *)
(* above the entropy the first step will append.  An empty craft is the    *)
(* engine as built.                                                        *)
(***************************************************************************)
Drops == {0, 799, 800, 801}

Crafts == {<<>>} \cup {<<d>> : d \in Drops}

FirstEntropy(e) == Entropy(Probs(e, e.edges[e.current], dragon_turn(e.step + 1)))

Crafted(e, craft) ==
    IF craft = <<>> \/ e.edges[e.current] = <<>> THEN e
    ELSE [e EXCEPT !.entropy_hist =
            [i \in 1..SnapLag |-> IF i = 1 THEN FirstEntropy(e) + craft[1] ELSE 0]]

InitCrafted ==
    \E texts \in Corpora \ {<<>>}, k \in 1..MaxK, craft \in Crafts :
        \E b \in {build_engine(Chunks(texts), k)} :
            /\ engine = Crafted(b.engine, craft)
            /\ call = [op |-> "build_engine", chunks |-> Chunks(texts), k |-> k]
            /\ ret = [err |-> b.err]

NextCrafted == DoStep \/ CoverageReset

SpecCrafted == InitCrafted /\ [][NextCrafted]_vars

(***************************************************************************)
(* The coverage command: Trials trials in sequence, each the reset followed *)
(* by a quiet run, on an engine that earlier commands have walked.  The run *)
(* of 100 steps is modelled by a run of MaxRun steps.                       *)
(***************************************************************************)
Trials == 5

\* A reset that leaves every visit count as it was.
TrialKeepsVisits(e, draws) ==
    run_steps([coverage_reset(e) EXCEPT !.nodes =
                  [n \in DOMAIN e.nodes |-> [e.nodes[n] EXCEPT !.hue = 0]]],
              draws, FALSE)

\* One iteration of the loop over range(5).
coverage_trial(e, draws) == run_steps(coverage_reset(e), draws, FALSE)

CoverageTrial ==
    /\ Ready
    /\ \E r \in 1..Trials :
        /\ r = (IF call.op = "coverage_trial" THEN call.r + 1 ELSE 1)
        /\ \E draws \in [1..MaxRun -> Draws] :
            \E s \in {coverage_trial(engine, draws)} :
                /\ engine' = s.engine
                /\ call' = [op |-> "coverage_trial", r |-> r, draws |-> draws]
                /\ ret' = s.ret

\* The navigation of the commands before the coverage command.
Navigate == call.op # "coverage_trial" /\ DoStep

NextTrial == Navigate \/ CoverageTrial

SpecTrial == InitCrafted /\ [][NextTrial]_vars

(***************************************************************************)
(* The coverage figure of run_steps as a function of len(set(path)) and    *)
(* len(nodes), on node counts the graphs above do not reach.  The inputs   *)
(* are the counts of a walk that missed at most MaxMissed nodes.  The      *)
(* engine itself is not part of this specification.                        *)
(***************************************************************************)
MaxCovNodes == 2001

MaxMissed == 2

NoTie(visited, total) == 2 * ((visited * CovScale) % total) # total

InitCoverage ==
    \E total \in 1..MaxCovNodes :
        \E visited \in Max(1, total - MaxMissed)..total :
            /\ NoTie(visited, total)
            /\ engine = Engine
            /\ call = [op |-> "coverage", visited |-> visited, total |-> total]
            /\ ret = [err |-> "pending"]

CoverageOf ==
    /\ call.op = "coverage"
    /\ ret.err = "pending"
    /\ ret' = [err |-> "none", coverage |-> Coverage(call.visited, call.total),
               unique_visited |-> call.visited]
    /\ UNCHANGED <<engine, call>>

NextCoverage == CoverageOf

SpecCoverage == InitCoverage /\ [][NextCoverage]_vars

(***************************************************************************)
(* Walks long enough for a second snap: four nodes, and up to MaxSnapStep  *)
(* steps.                                                                  *)
(***************************************************************************)
MaxSnapStep == 8

SnapCorpora == { <<1, 1, 2, 2>>, <<1, 1, 1, 3>> }

InitSnaps ==
    \E texts \in SnapCorpora, k \in {2, 3} :
        \E b \in {build_engine(Chunks(texts), k)} :
            /\ engine = b.engine
            /\ call = [op |-> "build_engine", chunks |-> Chunks(texts), k |-> k]
            /\ ret = [err |-> b.err]

LongStep ==
    /\ Ready
    /\ engine.step < MaxSnapStep
    /\ \E r \in Draws :
        \E s \in {do_step(engine, r)} :
            /\ engine' = s.engine
            /\ call' = [op |-> "do_step"]
            /\ ret' = s.ret

NextSnaps == LongStep \/ CoverageReset

SpecSnaps == InitSnaps /\ [][NextSnaps]_vars

(***************************************************************************)
(* cosine_sim as a function of two vectors of any lengths up to MaxDim,    *)
(* the lengths two embedders of different dimension would give.  The       *)
(* engine is not part of this specification.                               *)
(***************************************************************************)
MaxDim == 3

SimVectors == UNION {[1..n -> {0, 1}] : n \in 1..MaxDim}

InitSimilarity ==
    \E a \in SimVectors, b \in SimVectors :
        /\ engine = Engine
        /\ call = [op |-> "cosine_sim", a |-> a, b |-> b]
        /\ ret = [err |-> "pending"]

CosineSim ==
    /\ call.op = "cosine_sim"
    /\ ret.err = "pending"
    /\ ret' = [err |-> "none", sim |-> cosine_sim(call.a, call.b)]
    /\ UNCHANGED <<engine, call>>

NextSimilarity == CosineSim

SpecSimilarity == InitSimilarity /\ [][NextSimilarity]_vars

(***************************************************************************)
(* Properties.                                                             *)
(***************************************************************************)
\* build_engine returned an engine (it raises on an empty corpus).
HasEngine == ~(call.op = "build_engine" /\ ret.err # "none")

PathShape(e) ==
    /\ Len(e.path) = e.step + 1
    /\ Len(e.turns) = e.step
    /\ Len(e.entropy_hist) = e.step
    /\ \A i \in DOMAIN e.path : e.path[i] \in DOMAIN e.nodes

AllConnected(e) == \A n \in DOMAIN e.edges : e.edges[n] # <<>>

Degenerate(e) == e.edges[e.current] = <<>>

\* C1: in every state reachable from build_engine by do_step, run_steps and
\* the coverage reset, len(path) = step + 1, len(turns) = len(entropy_hist) =
\* step and every id of path is a key of nodes; and on a graph where every
\* node has a neighbor, a step adds one entry to path and entropy_hist and
\* run_steps(n) adds n (so n steps after build leave n + 1 and n entries).
C1_PathShape ==
    /\ (HasEngine => PathShape(engine))
    /\ [][/\ PathShape(engine')
          /\ (call'.op = "do_step" /\ AllConnected(engine)
                => /\ Len(engine'.path) = Len(engine.path) + 1
                   /\ Len(engine'.entropy_hist) = Len(engine.entropy_hist) + 1)
          /\ (call'.op = "run_steps" /\ ret'.err = "none" /\ AllConnected(engine)
                => /\ Len(engine'.path) = Len(engine.path) + call'.n
                   /\ Len(engine'.entropy_hist) = Len(engine.entropy_hist) + call'.n)
       ]_vars

\* MaxStep steps on a graph of three connected nodes: MaxStep + 1 entries.
C1_Witness ==
    /\ call.op = "do_step"
    /\ AllConnected(engine)
    /\ Cardinality(DOMAIN engine.nodes) = 3
    /\ engine.step = MaxStep
    /\ Len(engine.path) = MaxStep + 1

\* C2: for every node, in every reachable state, visits >= 0 and
\* 0 <= hue <= 1.
C2_VisitsHueBounds ==
    HasEngine =>
        \A n \in DOMAIN engine.nodes :
            /\ engine.nodes[n].visits >= 0
            /\ engine.nodes[n].hue >= 0
            /\ engine.nodes[n].hue <= Scale

\* A node entered with a hue above 0.85: the raised hue was clamped to 1.0
\* and decayed to 0.95.
C2_Witness ==
    /\ call.op = "do_step"
    /\ engine.nodes[engine.current].hue = (Scale * HueDecay) \div 100
    /\ engine.nodes[engine.current].visits > 1

\* C3: after build_engine(chunks, k) with k >= 1 and n >= 1 fragments, every
\* edge list has exactly min(k, n - 1) entries, pairwise distinct, none the
\* node itself, each a key of nodes.
C3_EdgeLists ==
    (call.op = "build_engine" /\ ret.err = "none") =>
        LET n == Len(call.chunks)
        IN  /\ DOMAIN engine.edges = DOMAIN engine.nodes
            /\ \A id \in DOMAIN engine.nodes :
                LET L == engine.edges[id]
                IN  /\ Len(L) = Min(call.k, n - 1)
                    /\ \A i, j \in DOMAIN L : i # j => L[i] # L[j]
                    /\ \A i \in DOMAIN L : L[i] # id /\ L[i] \in DOMAIN engine.nodes

\* A build where k cuts the lists: k = 1 with two other nodes.
C3_Witness ==
    /\ call.op = "build_engine"
    /\ ret.err = "none"
    /\ Len(call.chunks) = 3
    /\ call.k = 1
    /\ Len(engine.edges[1]) = 1

\* Similarity of two nodes of the engine.
SimOf(e, a, b) == cosine_sim(e.nodes[a].embedding, e.nodes[b].embedding)

\* C4: after build_engine each edge list is the first k of the other nodes by
\* descending similarity, equal similarities in input order: similarity never
\* increases along the list, equal neighbors are in input order, and no node
\* left out is more similar than one in the list (nor as similar as, and
\* earlier in the input than, one in the list).
C4_EdgeOrder ==
    (call.op = "build_engine" /\ ret.err = "none") =>
        \A id \in DOMAIN engine.nodes :
            LET L == engine.edges[id]
            IN  /\ \A i, j \in DOMAIN L :
                    i < j => /\ SimOf(engine, id, L[i]) >= SimOf(engine, id, L[j])
                             /\ (SimOf(engine, id, L[i]) = SimOf(engine, id, L[j])
                                   => L[i] < L[j])
                /\ \A o \in DOMAIN engine.nodes \ (Range(L) \cup {id}) :
                    \A i \in DOMAIN L :
                        /\ SimOf(engine, id, o) <= SimOf(engine, id, L[i])
                        /\ (SimOf(engine, id, o) = SimOf(engine, id, L[i]) => L[i] < o)

\* A build where the order is not the input order (node 1 is closer to 3
\* than to 2).
C4_Witness ==
    /\ call.op = "build_engine"
    /\ ret.err = "none"
    /\ Len(call.chunks) = 3
    /\ engine.edges[1] = <<3, 2>>
    /\ SimOf(engine, 1, 3) > SimOf(engine, 1, 2)

\* C5: when the current node's edge list is empty, do_step returns
\* (current, 0.0, None) and changes no field of the engine.
C5_DegenerateNoOp ==
    [][(call'.op = "do_step" /\ Degenerate(engine))
         => /\ engine' = engine
            /\ ret' = [err |-> "none", node |-> engine.current, entropy |-> 0, snap |-> <<>>]
      ]_vars

\* A step was taken on a single-node graph.
C5_Witness ==
    /\ call.op = "do_step"
    /\ HasEngine
    /\ Degenerate(engine)
    /\ ret.node = engine.current
    /\ engine.step = 0

\* C6: a step that moves fires a snap (returns the record and appends it to
\* snaps) if and only if, with this step's entropy appended, entropy_hist has
\* more than 4 entries and its fifth-last entry exceeds its last by more than
\* 0.08: a drop of exactly 0.08 fires none, a drop of 0.0801 fires one, a
\* history of 4 entries or fewer fires none; with no snap, snaps is unchanged
\* and None is returned.
C6_SnapIff ==
    [][(call'.op = "do_step" /\ ~Degenerate(engine))
         => LET hist  == engine'.entropy_hist
                last  == Len(hist)
                fires == last > 4 /\ hist[last - 4] - hist[last] > 800
            IN  /\ last = Len(engine.entropy_hist) + 1
                /\ hist[last] = ret'.entropy
                /\ (fires => /\ Len(ret'.snap) = 1
                             /\ engine'.snaps = Append(engine.snaps, ret'.snap[1])
                             /\ ret'.snap[1].delta = hist[last - 4] - hist[last])
                /\ (~fires => /\ ret'.snap = <<>>
                              /\ engine'.snaps = engine.snaps)
                /\ (last <= 4 => ret'.snap = <<>>)
      ]_vars

\* A snap fired on a drop of exactly 0.0801.
C6_Witness ==
    /\ call.op = "do_step"
    /\ Len(ret.snap) = 1
    /\ ret.snap[1].delta = 801
    /\ engine.snaps = ret.snap

\* C7: run_steps(engine, n) never fails for n >= 0 on a built engine and
\* performs exactly n steps: with a neighbor for every node step grows by n
\* and path by n entries; for n = 0 the engine is unchanged and the totals
\* are returned.
C7_RunStepsNeverFails ==
    [][call'.op = "run_steps"
         => /\ ret'.err = "none"
            /\ (AllConnected(engine)
                  => /\ engine'.step = engine.step + call'.n
                     /\ Len(engine'.path) = Len(engine.path) + call'.n)
            /\ (call'.n = 0
                  => /\ engine' = engine
                     /\ ret'.steps = engine.step
                     /\ ret'.snaps = Len(engine.snaps)
                     /\ ret'.unique_visited = Cardinality(Range(engine.path)))
      ]_vars

\* C8: the unique_visited run_steps returns is the number of distinct ids of
\* the whole path since build or the last reset, start node included; it is
\* at most the node count, and without a reset the number never decreases.
C8_UniqueVisited ==
    [][/\ (call'.op = "run_steps" /\ ret'.err = "none")
            => /\ ret'.unique_visited = Cardinality(Range(engine'.path))
               /\ ret'.unique_visited <= Cardinality(DOMAIN engine'.nodes)
               /\ ret'.unique_visited >= Cardinality(Range(engine.path))
       /\ (call'.op # "coverage_reset")
            => Cardinality(Range(engine'.path)) >= Cardinality(Range(engine.path))
      ]_vars

\* A run of one step that returns 3: the count is of the path so far, the
\* start node included if it was not entered again.
C8_Witness ==
    /\ call.op = "run_steps"
    /\ ret.err = "none"
    /\ call.n = 1
    /\ engine.step > 1
    /\ ret.unique_visited = 3
    /\ engine.nodes[engine.path[1]].visits = 0

\* C9: the coverage run_steps returns is in [0, 1] and is 1.0 exactly when
\* unique_visited equals the node count, for every node count.
C9_CoverageOneIffAll ==
    (call.op = "coverage" /\ ret.err = "none") =>
        /\ ret.coverage >= 0
        /\ ret.coverage <= CovScale
        /\ (ret.coverage = CovScale <=> call.visited = call.total)

\* C10: find_meaning(engine, query, k) with k >= 0 returns min(k, node count)
\* triples (similarity, id, content) of distinct nodes, the most similar
\* ones, by descending similarity to the query's embedding and with equal
\* similarities in the insertion order of nodes; it changes no field of the
\* engine.
C10_FindMeaning ==
    [][call'.op = "find_meaning"
         => LET res == ret'.results
                q   == embed(call'.query)
                sim(id) == cosine_sim(q, engine.nodes[id].embedding)
                got == {res[i][2] : i \in DOMAIN res}
            IN  /\ engine' = engine
                /\ Len(res) = Min(call'.k, Cardinality(DOMAIN engine.nodes))
                /\ \A i \in DOMAIN res :
                     /\ res[i][2] \in DOMAIN engine.nodes
                     /\ res[i][1] = sim(res[i][2])
                     /\ res[i][3] = engine.nodes[res[i][2]].content
                /\ \A i, j \in DOMAIN res :
                     i < j => /\ res[i][1] >= res[j][1]
                              /\ (res[i][1] = res[j][1] => res[i][2] < res[j][2])
                /\ \A o \in DOMAIN engine.nodes \ got :
                     \A i \in DOMAIN res :
                        /\ sim(o) <= res[i][1]
                        /\ (sim(o) = res[i][1] => res[i][2] < o)
      ]_vars

\* A lookup after a step, cut by k, whose two results tie.
C10_Witness ==
    /\ call.op = "find_meaning"
    /\ call.k = 2
    /\ Cardinality(DOMAIN engine.nodes) = 3
    /\ engine.step > 0
    /\ Len(ret.results) = 2
    /\ ret.results[1][1] = ret.results[2][1]
    /\ ret.results[1][2] < ret.results[2][2]

\* C11: for a lookup with k >= 1 whose query embedding is identical to the
\* embedding of a node X, X is the first result and its similarity is 1.0,
\* whatever the graph and the embedding (a node before X with the same
\* embedding, an embedding of zero magnitude).
C11_IdenticalFirst ==
    [][(call'.op = "find_meaning" /\ call'.k >= 1)
         => \A X \in DOMAIN engine.nodes :
               engine.nodes[X].embedding = embed(call'.query)
                 => /\ ret'.results[1][2] = X
                    /\ ret'.results[1][1] = Scale
      ]_vars

\* The fields of the reset that the claim and the code agree on: current is
\* the first key of nodes, turns, entropy_hist and snaps are empty, every
\* node's visits and hue are zero.
ResetRest(before, after) ==
    /\ after.current = Keys(before.nodes)[1]
    /\ after.turns = <<>>
    /\ after.entropy_hist = <<>>
    /\ after.snaps = <<>>
    /\ DOMAIN after.nodes = DOMAIN before.nodes
    /\ \A n \in DOMAIN after.nodes :
         after.nodes[n].visits = 0 /\ after.nodes[n].hue = 0

\* C12 as stated: the reset sets current to the first node in enumeration
\* order, leaves path, turns, entropy_hist and snaps empty and every node's
\* visits and hue at zero.
C12_ResetClearsPath ==
    [][call'.op = "coverage_reset"
         => /\ ResetRest(engine, engine')
            /\ engine'.path = <<>>
      ]_vars

\* C12 amended: the reset sets current to the first node in enumeration
\* order, sets path to that one node, leaves turns, entropy_hist and snaps
\* empty and every node's visits and hue at zero.
C12_ResetPathIsStart ==
    [][call'.op = "coverage_reset"
         => /\ ResetRest(engine, engine')
            /\ engine'.path = <<Keys(engine.nodes)[1]>>
      ]_vars

\* A reset of a graph of three nodes.
C12_Witness ==
    /\ call.op = "coverage_reset"
    /\ Cardinality(DOMAIN engine.nodes) = 3
    /\ engine.current = 1
    /\ engine.path = <<1>>
    /\ engine.snaps = <<>>

\* The engine build_engine returns for the graph of e: the nodes as
\* Node(id, content, embedding) makes them, the edges, the first key as
\* current and only entry of path, every other field at its default.
AsBuilt(e) ==
    [Engine EXCEPT
        !.nodes = [n \in DOMAIN e.nodes |->
                     Node(e.nodes[n].id, e.nodes[n].content, e.nodes[n].embedding)],
        !.edges = e.edges,
        !.current = Keys(e.nodes)[1],
        !.path = <<Keys(e.nodes)[1]>>]

\* C13: a coverage trial does not depend on the navigation before it: from
\* any engine over a graph, whatever its current, path, turns, entropy_hist,
\* snaps, step, visits and hue, the reset followed by a run with given draws
\* enters the same ids with the same entropies and snaps, returns the same
\* result and leaves the same engine as that run on the engine as built.
C13_TrialIndependent ==
    [][call'.op = "coverage_trial"
         => \E ref \in {run_steps(AsBuilt(engine), call'.draws, FALSE)} :
               /\ engine'.path = ref.engine.path
               /\ engine'.entropy_hist = ref.engine.entropy_hist
               /\ engine'.snaps = ref.engine.snaps
               /\ engine' = ref.engine
               /\ ret' = ref.ret
      ]_vars

\* A second trial, after a trial that walked, that walked itself.
C13_Witness ==
    /\ call.op = "coverage_trial"
    /\ call.r = 2
    /\ Cardinality(DOMAIN engine.nodes) = 3
    /\ engine.step = MaxRun
    /\ ret.unique_visited = 3

\* C14: build_engine called with no fragment fails with the EmptyCorpus
\* error and returns no graph, neither an empty nor a partly built one.
C14_EmptyCorpus ==
    (call.op = "build_engine" /\ call.chunks = <<>>)
        => /\ ret.err = "EmptyCorpus"
           /\ engine = Engine

\* C15: when two embeddings of different lengths reach the similarity
\* computation it is rejected with a DimensionMismatch error: no similarity
\* is computed from vectors of unequal length.
C15_DimensionMismatch ==
    (call.op = "cosine_sim" /\ ret.err # "pending" /\ Len(call.a) # Len(call.b))
        => ret.err = "DimensionMismatch"

\* The regular paper-folding sequence: with s = 2^a * m and m odd, the fold
\* at s is +1 iff m mod 4 = 1.
RECURSIVE OddPart(_)
OddPart(s) == IF s % 2 = 1 THEN s ELSE OddPart(s \div 2)

PaperFold(s) == IF OddPart(s) % 4 = 1 THEN 1 ELSE -1

TurnPrefix == <<1, 1, -1, 1, 1, -1, -1>>

\* C16: the turn is a function of the step index alone: +1 for s <= 0 and
\* the paper-folding value for s > 0; the j-th step after build or reset
\* appends the value at j to turns, so turns begins +1, +1, -1, +1, +1, -1,
\* -1 in every walk, whatever the draws and the nodes chosen.
C16_TurnSequence ==
    /\ \A s \in (-MaxDeepStep)..0 : dragon_turn(s) = 1
    /\ \A s \in 1..(MaxDeepStep + 1) : dragon_turn(s) = PaperFold(s)
    /\ HasEngine =>
         \A j \in DOMAIN engine.turns :
            /\ engine.turns[j] = PaperFold(j)
            /\ (j <= Len(TurnPrefix) => engine.turns[j] = TurnPrefix[j])

\* A walk of seven steps that entered one node three times.
C16_Witness ==
    /\ call.op = "do_step"
    /\ engine.turns = TurnPrefix
    /\ engine.step = 7
    /\ \E n \in DOMAIN engine.nodes : engine.nodes[n].visits >= 3

Prefix(a, b) == Len(a) <= Len(b) /\ SubSeq(b, 1, Len(a)) = a

\* The history of e is the beginning of the history of f.
Grows(e, f) ==
    /\ Prefix(e.path, f.path)
    /\ Prefix(e.turns, f.turns)
    /\ Prefix(e.entropy_hist, f.entropy_hist)
    /\ Prefix(e.snaps, f.snaps)
    /\ e.step <= f.step

\* C17: between resets the history only grows: a do_step leaves path, turns,
\* entropy_hist and snaps as prefixes of the new ones and does not lower
\* step; a step that moves appends exactly one entry to path, turns and
\* entropy_hist, at most one to snaps, and adds 1 to step; every operation
\* but the coverage reset leaves the old history a prefix of the new one.
C17_HistoryGrows ==
    [][/\ (call'.op = "do_step")
            => /\ Grows(engine, engine')
               /\ (~Degenerate(engine)
                     => /\ Len(engine'.path) = Len(engine.path) + 1
                        /\ Len(engine'.turns) = Len(engine.turns) + 1
                        /\ Len(engine'.entropy_hist) = Len(engine.entropy_hist) + 1
                        /\ Len(engine'.snaps) <= Len(engine.snaps) + 1
                        /\ engine'.step = engine.step + 1)
       /\ (call'.op # "coverage_reset") => Grows(engine, engine')
      ]_vars

\* A step that appended a snap to a history of five steps or more.
C17_Witness ==
    /\ call.op = "do_step"
    /\ ret.snap # <<>>
    /\ engine.step >= 5
    /\ engine.snaps[Len(engine.snaps)] = ret.snap[1]

\* The number of times the walk entered n: the occurrences of n in path
\* after the first position.
Entered(e, n) == Cardinality({i \in 2..Len(e.path) : e.path[i] = n})

\* C18: in every state reachable by steps, runs and coverage resets each
\* node's visits is the number of occurrences of its id in path after the
\* first position (the start is not a visit), and the visits of all nodes
\* add up to step.
C18_VisitsCountEntries ==
    HasEngine =>
        /\ \A n \in DOMAIN engine.nodes : engine.nodes[n].visits = Entered(engine, n)
        /\ SumSeq([n \in DOMAIN engine.nodes |-> engine.nodes[n].visits]) = engine.step

\* A walk that never came back to its start and entered another node twice.
C18_Witness ==
    /\ HasEngine
    /\ engine.step >= 3
    /\ engine.nodes[engine.path[1]].visits = 0
    /\ \E n \in DOMAIN engine.nodes : engine.nodes[n].visits = 2

\* C19: the walk moves along edges only: in every state reachable by steps,
\* runs and coverage resets, current is the last entry of path, path starts
\* at the first node of the graph, and each entry after the first is in the
\* edge list of the entry before it, so it is another node than that one.
C19_WalkAlongEdges ==
    HasEngine =>
        /\ engine.path # <<>>
        /\ engine.current = engine.path[Len(engine.path)]
        /\ engine.path[1] = Keys(engine.nodes)[1]
        /\ \A i \in 1..(Len(engine.path) - 1) :
             /\ engine.path[i + 1] \in Range(engine.edges[engine.path[i]])
             /\ engine.path[i + 1] # engine.path[i]

\* A walk of three steps or more on three nodes with one neighbor each.
C19_Witness ==
    /\ HasEngine
    /\ Cardinality(DOMAIN engine.nodes) = 3
    /\ \A n \in DOMAIN engine.edges : Len(engine.edges[n]) = 1
    /\ engine.step >= 3
    /\ engine.current # engine.path[1]

\* C20: every record of snaps names the step that fired it: its step field
\* s is the counter before that step's increment and its node the id that
\* step entered (path[s + 1], counting from 0), with 4 <= s < step; the step
\* fields increase strictly along snaps, and len(snaps) <= max(0, step - 4).
C20_SnapRecords ==
    HasEngine =>
        /\ \A i \in DOMAIN engine.snaps :
             LET s == engine.snaps[i].step
             IN  /\ 4 <= s
                 /\ s < engine.step
                 /\ engine.path[s + 2] = engine.snaps[i].node
                 /\ engine.snaps[i].preview = engine.nodes[engine.snaps[i].node].content
        /\ \A i, j \in DOMAIN engine.snaps :
             i < j => engine.snaps[i].step < engine.snaps[j].step
        /\ Len(engine.snaps) <= Max(0, engine.step - 4)

\* Two snaps, the first fired by an earlier step than the last one taken.
C20_Witness ==
    /\ HasEngine
    /\ Len(engine.snaps) >= 2
    /\ engine.snaps[1].step + 1 < engine.step
    /\ engine.path[engine.snaps[2].step + 2] = engine.snaps[2].node

====
